---- MODULE Spec2Model ----
(***************************************************************************)
(* Process execution and job result retrieval of pygeoapi:                 *)
(*   pygeoapi/api/processes.py        execute_process, get_job_result      *)
(*   pygeoapi/process/manager/tinydb_.py   TinyDBManager (the job store)   *)
(* The process manager's execution handler (BaseManager), the processes    *)
(* and the exception renderer are not part of these sources; they follow   *)
(* the design document of the subsystem.                                   *)
(***************************************************************************)
EXTENDS Integers, Sequences, FiniteSets, TLC

\* Number of job documents the store may hold.
MaxJobs == 2

(***************************************************************************)
(* Python values                                                           *)
(***************************************************************************)
\* None
Null == [null |-> TRUE]

\* {}
EmptyDict == [k \in {} |-> Null]

\* dict.get(key, default)
DictGet(d, key, default) == IF key \in DOMAIN d THEN d[key] ELSE default

\* dict.update(other): keys of other win
DictUpdate(d, other) ==
    [k \in (DOMAIN d) \cup (DOMAIN other) |->
        IF k \in DOMAIN other THEN other[k] ELSE d[k]]

\* d[key] = value
DictSet(d, key, value) ==
    [k \in (DOMAIN d) \cup {key} |-> IF k = key THEN value ELSE d[k]]

(***************************************************************************)
(* JobStatus, HTTPStatus, formats                                          *)
(***************************************************************************)
JobStatus == {"accepted", "running", "successful", "failed"}

OK == 200
CREATED == 201
BAD_REQUEST == 400
NOT_FOUND == 404
INTERNAL_SERVER_ERROR == 500

F_JSON == "json"
F_HTML == "html"
Formats == {F_JSON, F_HTML}
JsonMime == "application/json"

(***************************************************************************)
(* Requests                                                                *)
(***************************************************************************)
\* The process registry (api.manager.processes) and the ids a client sends.
Registry == {"hello-world", "tile-render"}
ProcessIds == Registry \cup {"foo"}

\* Raw request bodies (request.data).
Bodies == {
    "",
    "{not json",
    "[1]",
    "{}",
    "{\"inputs\":{\"name\":\"Test\"}}",
    "{\"inputs\":{\"name\":\"Test\"},\"response\":\"document\"}",
    "{\"inputs\":{},\"response\":\"document\"}" }

\* Values of the Prefer request header ("absent": the header is not sent).
PreferValues == {"absent", "respond-async", "respond-sync", "wait=10"}

\* json.loads: the parsed value, tagged with its JSON type; "error" stands
\* for JSONDecodeError.
json_loads(raw) ==
    CASE raw = "[1]" -> [type |-> "array", value |-> EmptyDict]
      [] raw = "{}" -> [type |-> "object", value |-> EmptyDict]
      [] raw = "{\"inputs\":{\"name\":\"Test\"}}" ->
            [type |-> "object",
             value |-> [inputs |-> [name |-> [str |-> "Test"]]]]
      [] raw = "{\"inputs\":{\"name\":\"Test\"},\"response\":\"document\"}" ->
            [type |-> "object",
             value |-> [inputs |-> [name |-> [str |-> "Test"]],
                        response |-> [str |-> "document"]]]
      [] raw = "{\"inputs\":{},\"response\":\"document\"}" ->
            [type |-> "object",
             value |-> [inputs |-> EmptyDict,
                        response |-> [str |-> "document"]]]
      [] OTHER -> [type |-> "error", value |-> EmptyDict]

(***************************************************************************)
(* The job store: TinyDBManager.  self.db is a list of documents; a        *)
(* document's doc_id is its position.  A document is the job_metadata      *)
(* dict: jobid, processid, status, result (None until one is attached).    *)
(***************************************************************************)
JobIds == 1..MaxJobs
\* Job ids a client may ask for: those the store can hold and one it never holds.
AskedJobIds == 1..(MaxJobs + 1)

JobMetadata(jobid, processid, status, result) ==
    [jobid |-> jobid, processid |-> processid,
     status |-> status, result |-> result]

\* The insert lost: the transaction is left without a commit.
add_job_lost(store, job_metadata) == store

\* The insert written over the table instead of into it.
add_job_truncate(store, job_metadata) == <<job_metadata>>

\* TinyDBManager.add_job: a transactional insert of job_metadata as a new
\* document.  No lookup of an existing jobid precedes the insert.
add_job(store, job_metadata) == Append(store, job_metadata)

\* TinyDBManager.get_job_result(processid, jobid): the documents matching
\* both keys.
get_job_result(store, processid, jobid) ==
    SelectSeq(store, LAMBDA doc : doc.processid = processid /\ doc.jobid = jobid)

\* TinyDBManager.add_job_result(processid, jobid): the body is a docstring
\* only; nothing is written.
add_job_result(store, processid, jobid) == store

(***************************************************************************)
(* Manager operations the API calls that TinyDBManager inherits: lookup    *)
(* by job id, result retrieval, status update.                             *)
(***************************************************************************)
JobDocs(store, job_id) == SelectSeq(store, LAMBDA doc : doc.jobid = job_id)

\* manager.get_job(job_id): the job, or JobNotFoundError.
get_job(store, job_id) ==
    IF JobDocs(store, job_id) = << >>
    THEN [error |-> "JobNotFoundError", job |-> Null]
    ELSE [error |-> "", job |-> Head(JobDocs(store, job_id))]

\* manager.get_job_result(job_id): (mimetype, output) of the job's attached
\* result, or JobResultNotFoundError when none is attached.
manager_get_job_result(store, job_id) ==
    LET job == get_job(store, job_id).job
    IN IF job.result = Null
       THEN [error |-> "JobResultNotFoundError", mimetype |-> "", output |-> Null]
       ELSE [error |-> "", mimetype |-> job.result.mimetype,
             output |-> job.result.payload]

\* The transitions of the status lifecycle.
LegalTransition(from, to) ==
    \/ from = "accepted" /\ to = "running"
    \/ from = "running" /\ to \in {"successful", "failed"}

\* The status written without a look at the current one.
updateStatusUnchecked(store, job_id, newStatus, result) ==
    [error |-> "",
     store |-> [i \in DOMAIN store |->
                   IF store[i].jobid = job_id
                   THEN [store[i] EXCEPT !.status = newStatus,
                                         !.result = result]
                   ELSE store[i]]]

\* The lifecycle checked, but a status the job already has written again,
\* result included.
updateStatusLastWriter(store, job_id, newStatus, result) ==
    IF JobDocs(store, job_id) = << >>
    THEN [error |-> "JobNotFound", store |-> store]
    ELSE IF /\ ~LegalTransition(get_job(store, job_id).job.status, newStatus)
            /\ get_job(store, job_id).job.status # newStatus
    THEN [error |-> "InvalidTransition", store |-> store]
    ELSE [error |-> "",
          store |-> [i \in DOMAIN store |->
                        IF store[i].jobid = job_id
                        THEN [store[i] EXCEPT !.status = newStatus,
                                              !.result = result]
                        ELSE store[i]]]

\* updateStatus(job_id, newStatus, result): one atomic check-and-write.  An
\* unknown job or a transition outside the lifecycle leaves the store as it
\* is and reports the error.
updateStatus(store, job_id, newStatus, result) ==
    IF JobDocs(store, job_id) = << >>
    THEN [error |-> "JobNotFound", store |-> store]
    ELSE IF ~LegalTransition(get_job(store, job_id).job.status, newStatus)
    THEN [error |-> "InvalidTransition", store |-> store]
    ELSE [error |-> "",
          store |-> [i \in DOMAIN store |->
                        IF store[i].jobid = job_id
                        THEN [store[i] EXCEPT !.status = newStatus,
                                              !.result = result]
                        ELSE store[i]]]

(***************************************************************************)
(* Processes                                                               *)
(***************************************************************************)
HelloOutput == [id |-> "echo", value |-> "Hello Test!"]
TileOutput == [bytes |-> "PNG"]
ErrorOutput == [code |-> "InvalidParameterValue",
                description |-> "Error updating job"]

\* processor.execute(data_dict) as the handler sees it: the output and its
\* mimetype, or the failure payload.  hello-world needs the input 'name'.
ProcessRun(process_id, data_dict) ==
    IF process_id = "hello-world"
    THEN IF "name" \in DOMAIN data_dict
         THEN [status |-> "successful", mimetype |-> JsonMime,
               outputs |-> HelloOutput]
         ELSE [status |-> "failed", mimetype |-> JsonMime,
               outputs |-> ErrorOutput]
    ELSE [status |-> "successful", mimetype |-> "image/png",
          outputs |-> TileOutput]

(***************************************************************************)
(* execute_process (api/processes.py)                                      *)
(***************************************************************************)
\* FORMAT_TYPES
FormatMime(format) == IF format = F_JSON THEN JsonMime ELSE "text/html"

\* request.get_response_headers(SYSTEM_LOCALE, **api.api_headers)
get_response_headers(format) ==
    ("Content-Type" :> FormatMime(format)) @@ ("Content-Language" :> "en-US")

\* to_json / json.dumps: the serialised text of a value.
to_json(value) == [json |-> value]

\* render_j2_template
render_j2_template(template, value) == [html |-> template, data |-> value]

\* api.get_exception: (headers, status, content) with the error envelope
\* {code, description} rendered in the request's format.
get_exception(http, headers, format, code, description) ==
    [http |-> http, headers |-> headers,
     body |-> IF format = F_JSON
              THEN to_json([code |-> code, description |-> description])
              ELSE render_j2_template("exception.html",
                       [code |-> code, description |-> description])]

\* The registry lookup left out.
ProcessMissingNever(process_id) == FALSE

\* if process_id not in api.manager.processes
ProcessMissing(process_id) == process_id \notin Registry

\* The emptiness test left out.
DataMissingNever(data) == FALSE

\* if not data
DataMissing(data) == data = ""

\* The JSONDecodeError not caught.
DataInvalidNever(data) == FALSE

\* json.loads raised JSONDecodeError or TypeError
DataInvalid(data) == json_loads(data).type = "error"

\* The body looked at before the registry.
EarlyReturnBodyFirst(process_id, data) ==
    IF DataMissing(data) THEN "MissingParameterValue"
    ELSE IF DataInvalid(data) THEN "InvalidParameterValue"
    ELSE IF ProcessMissing(process_id) THEN "NoSuchProcess"
    ELSE IF json_loads(data).type # "object" THEN "AttributeError"
    ELSE ""

\* data.get('inputs', {}) on a parsed value that is no dict raises
\* AttributeError, which execute_process does not catch.
DataNotDict(data) == json_loads(data).type # "object"

\* The returns of execute_process that precede the invocation; "" when the
\* request passes all of them.
EarlyReturn(process_id, data) ==
    IF ProcessMissing(process_id) THEN "NoSuchProcess"
    ELSE IF DataMissing(data) THEN "MissingParameterValue"
    ELSE IF DataInvalid(data) THEN "InvalidParameterValue"
    ELSE IF DataNotDict(data) THEN "AttributeError"
    ELSE ""

\* Every Prefer value other than respond-sync taken as a wish for
\* asynchronous execution.
execution_mode_eager(prefer) ==
    IF prefer = "absent" THEN "None"
    ELSE IF prefer = "respond-sync" THEN prefer ELSE "respond-async"

\* RequestedProcessExecutionMode(request.headers.get('Prefer', ...)); a value
\* that is no member of the enumeration raises ValueError and gives None.
execution_mode(prefer) ==
    IF prefer \in {"respond-async", "respond-sync"} THEN prefer ELSE "None"

\* manager.execute_process picks the handler: the background handler when
\* asynchronous execution is asked for, the inline handler otherwise.
IsAsync(mode) == mode = "respond-async"

\* Headers a manager may return with the result tuple (None, or a dict).
AdditionalHeaders ==
    {Null, "Location" :> "/elsewhere" @@ "Link" :> "</elsewhere>"}

LocationOf(job_id) == "/jobs/" \o ToString(job_id)

\* The two statements in the other order: the manager's headers last.
ResultHeadersUpdateLast(headers, additional_headers, job_id) ==
    DictUpdate(DictSet(headers, "Location", LocationOf(job_id)),
               IF additional_headers = Null
               THEN EmptyDict ELSE additional_headers)

\* headers.update(additional_headers or {}); headers['Location'] = ...
ResultHeaders(headers, additional_headers, job_id) ==
    DictSet(DictUpdate(headers, IF additional_headers = Null
                                THEN EmptyDict ELSE additional_headers),
            "Location", LocationOf(job_id))

\* The default of the response style taken to be 'document'.
IsRawUnlessAbsent(data) ==
    DictGet(data, "response", [str |-> "document"]) = [str |-> "raw"]

\* data.get('response', 'raw') == 'raw'
IsRaw(data) == DictGet(data, "response", [str |-> "raw"]) = [str |-> "raw"]

\* The failure payload forgotten: response stays {} unless the style is raw.
ResponseBodyNoFailure(data, status, outputs) ==
    IF IsRaw(data) THEN outputs
    ELSE IF status \notin {"failed", "accepted"}
    THEN DictSet(EmptyDict, "outputs", <<outputs>>)
    ELSE EmptyDict

\* The response object built from the result tuple.
ResponseBody(data, status, outputs) ==
    LET response == IF status = "failed" THEN outputs ELSE EmptyDict
    IN IF IsRaw(data) THEN outputs
       ELSE IF status \notin {"failed", "accepted"}
       THEN DictSet(response, "outputs", <<outputs>>)
       ELSE response

\* headers['Content-Type'] = mime_type in raw style only
StyleHeaders(headers, data, mime_type) ==
    IF IsRaw(data) THEN DictSet(headers, "Content-Type", mime_type) ELSE headers

\* HTTPStatus.OK whatever the status
HttpStatusAlwaysOK(status) == OK

\* HTTPStatus.CREATED for an accepted job, HTTPStatus.OK otherwise
HttpStatusOf(status) == IF status = "accepted" THEN CREATED ELSE OK

\* to_json(response) when the mimetype is application/json, else as is
EncodeBody(mime_type, response) ==
    IF mime_type = JsonMime THEN to_json(response) ELSE response

\* execute_process from the returned result tuple to its return.
ExecuteResponse(format, data, job_id, mime_type, outputs, status, additional_headers) ==
    [http |-> HttpStatusOf(status),
     headers |-> StyleHeaders(
                     ResultHeaders(get_response_headers(format),
                                   additional_headers, job_id),
                     data, mime_type),
     body |-> EncodeBody(mime_type, ResponseBody(data, status, outputs))]

\* The processing error reported as a request without data.
ExecuteFailureMissing(format) ==
    get_exception(BAD_REQUEST, get_response_headers(format), format,
                  "MissingParameterValue", "missing request data")

\* The processing error reported as the client's fault.
ExecuteFailureBadRequest(format) ==
    get_exception(BAD_REQUEST, get_response_headers(format), format,
                  "InvalidParameterValue", "Processing error")

\* execute_process when the invocation raised ProcessorExecuteError.
ExecuteFailure(format) ==
    get_exception(INTERNAL_SERVER_ERROR, get_response_headers(format), format,
                  "NoApplicableCode", "Processing error")

\* execute_process on an early return: status and message per error code.
ExecuteRejection(code, format) ==
    CASE code = "NoSuchProcess" ->
            get_exception(NOT_FOUND, get_response_headers(format), format,
                          code, "identifier not found")
      [] code = "MissingParameterValue" ->
            get_exception(BAD_REQUEST, get_response_headers(format), format,
                          code, "missing request data")
      [] code = "InvalidParameterValue" ->
            get_exception(BAD_REQUEST, get_response_headers(format), format,
                          code, "invalid request data")

(***************************************************************************)
(* get_job_result (api/processes.py)                                       *)
(***************************************************************************)
\* The early returns on the job's status; "" lets the request through to
\* the result.
StatusGate(status) ==
    CASE status = "running" ->
            [http |-> NOT_FOUND, code |-> "ResultNotReady",
             msg |-> "job still running"]
      [] status = "accepted" ->
            [http |-> NOT_FOUND, code |-> "ResultNotReady",
             msg |-> "job accepted but not yet running"]
      [] status = "failed" ->
            [http |-> BAD_REQUEST, code |-> "InvalidParameterValue",
             msg |-> "job failed"]
      [] OTHER -> [http |-> OK, code |-> "", msg |-> ""]

\* The content for a fetched result: verbatim with its own Content-Type when
\* the mimetype is neither None nor JSON, else JSON text or the HTML page.
ResultContent(headers, format, job_id, mimetype, job_output) ==
    IF mimetype \notin {"None", JsonMime}
    THEN [http |-> OK, headers |-> DictSet(headers, "Content-Type", mimetype),
          body |-> job_output]
    ELSE IF format = F_JSON
    THEN [http |-> OK, headers |-> headers, body |-> to_json(job_output)]
    ELSE [http |-> OK, headers |-> headers,
          body |-> render_j2_template("jobs/results/index.html",
                       [job |-> [id |-> job_id], result |-> job_output])]

\* The error code of a get_job_result call, "" for a 200.
JobResultCode(store, job_id) ==
    IF get_job(store, job_id).error # "" THEN "NoSuchJob"
    ELSE IF StatusGate(get_job(store, job_id).job.status).code # ""
    THEN StatusGate(get_job(store, job_id).job.status).code
    ELSE IF manager_get_job_result(store, job_id).error # ""
    THEN "JobResultNotFound"
    ELSE ""

\* The missing result reported as a missing job's would be: 404.
JobResultResponseNotFound(store, format, job_id) ==
    LET headers == get_response_headers(format)
        code == JobResultCode(store, job_id)
    IN CASE code \in {"NoSuchJob", "JobResultNotFound"} ->
                get_exception(NOT_FOUND, headers, format, code,
                              ToString(job_id))
         [] code = "" ->
                ResultContent(headers, format, job_id,
                              manager_get_job_result(store, job_id).mimetype,
                              manager_get_job_result(store, job_id).output)
         [] OTHER ->
                get_exception(
                    StatusGate(get_job(store, job_id).job.status).http,
                    headers, format, code,
                    StatusGate(get_job(store, job_id).job.status).msg)

\* get_job_result as a whole: (headers, status, content).
JobResultResponse(store, format, job_id) ==
    LET headers == get_response_headers(format)
        code == JobResultCode(store, job_id)
    IN CASE code = "NoSuchJob" ->
                get_exception(NOT_FOUND, headers, format, code,
                              ToString(job_id))
         [] code = "JobResultNotFound" ->
                get_exception(INTERNAL_SERVER_ERROR, headers, format, code,
                              ToString(job_id))
         [] code = "" ->
                ResultContent(headers, format, job_id,
                              manager_get_job_result(store, job_id).mimetype,
                              manager_get_job_result(store, job_id).output)
         [] OTHER ->
                get_exception(
                    StatusGate(get_job(store, job_id).job.status).http,
                    headers, format, code,
                    StatusGate(get_job(store, job_id).job.status).msg)

(***************************************************************************)
(* State                                                                   *)
(***************************************************************************)
VARIABLES
    db,     \* TinyDBManager.db: the job documents
    tasks,  \* per job id: the execution handler that runs the job
    resp    \* the return of the call being answered (NoResp: none is)

vars == <<db, tasks, resp>>

\* No handler.  A handler holds pc, where it stands ("returned": the job
\* was run inline and its request answered), and data_dict, the inputs.
NoTask == [pc |-> "none", data_dict |-> EmptyDict]

\* The request an execute_process return answers.
Request(process_id, data, prefer) ==
    [process_id |-> process_id, data |-> data, prefer |-> prefer]

NoRequest == Request("", "", "")

NoResp == [op |-> "none", request |-> NoRequest, http |-> 0, code |-> "",
           headers |-> EmptyDict, body |-> Null, job |-> 0, status |-> "",
           invoked |-> FALSE]

\* The return r of an API call op; code is the error code of its envelope,
\* job and status the job id and status of the result tuple (0, "" if none),
\* invoked whether manager.execute_process was called.
Response(op, r, code, job, status, invoked) ==
    [op |-> op, request |-> NoRequest, http |-> r.http, code |-> code,
     headers |-> r.headers, body |-> r.body, job |-> job, status |-> status,
     invoked |-> invoked]

\* The same for execute_process, with the request it answers.
Answer(request, r, code, job, status, invoked) ==
    [Response("execute", r, code, job, status, invoked)
        EXCEPT !.request = request]

\* An exception that leaves the API function uncaught.
Uncaught(request, exception, invoked) ==
    [NoResp EXCEPT !.op = "execute", !.request = request,
                   !.code = exception, !.invoked = invoked]

Init ==
    /\ db = << >>
    /\ tasks = [j \in JobIds |-> NoTask]
    /\ resp = NoResp

(***************************************************************************)
(* The execution handler.  It inserts the accepted job, moves it to        *)
(* running, runs the process and moves the job to its terminal status.  A  *)
(* result reaches the store in one of two ways: handed over with the       *)
(* status update, or through the store's add_job_result before it.         *)
(***************************************************************************)
ResultPaths == {"update", "add_job_result"}

ResultOf(run) == [mimetype |-> run.mimetype, payload |-> run.outputs]

\* Step 1: the accepted job
HandlerInsert(store, job_id, process_id) ==
    add_job(store, JobMetadata(job_id, process_id, "accepted", Null))

\* Step 2: accepted -> running
HandlerRunning(store, job_id) ==
    updateStatus(store, job_id, "running", Null).store

\* Step 3, success by the first way: running -> successful with the result
HandlerSucceeded(store, job_id, run) ==
    updateStatus(store, job_id, "successful", ResultOf(run)).store

\* Step 3, success by the second way: add_job_result ...
HandlerStored(store, job_id, process_id) ==
    add_job_result(store, process_id, job_id)

\* ... then running -> successful, the stored result left as it is
HandlerCompleted(store, job_id) ==
    updateStatus(store, job_id, "successful",
                 get_job(store, job_id).job.result).store

\* Step 3, failure: running -> failed
HandlerFailed(store, job_id) ==
    updateStatus(store, job_id, "failed", Null).store

\* The inline handler: all steps before the request is answered.
HandlerInline(store, job_id, process_id, data_dict, path) ==
    LET run == ProcessRun(process_id, data_dict)
        running == HandlerRunning(HandlerInsert(store, job_id, process_id),
                                  job_id)
    IN IF run.status = "failed" THEN HandlerFailed(running, job_id)
       ELSE IF path = "update" THEN HandlerSucceeded(running, job_id, run)
       ELSE HandlerCompleted(HandlerStored(running, job_id, process_id),
                             job_id)

(***************************************************************************)
(* Actions: execute_process                                                *)
(***************************************************************************)
\* data.get('inputs', {})
InputsOf(data) == DictGet(json_loads(data).value, "inputs", EmptyDict)

\* The job id the manager generates: one no document carries.
NewJobId == Len(db) + 1

\* execute_process returns NoSuchProcess, MissingParameterValue or
\* InvalidParameterValue.
ExecuteRejected(process_id, data, prefer, format) ==
    /\ resp = NoResp
    /\ EarlyReturn(process_id, data) \in
           {"NoSuchProcess", "MissingParameterValue", "InvalidParameterValue"}
    /\ resp' = Answer(Request(process_id, data, prefer),
                      ExecuteRejection(EarlyReturn(process_id, data), format),
                      EarlyReturn(process_id, data), 0, "", FALSE)
    /\ UNCHANGED <<db, tasks>>

\* The body parses to a value that is no dict: data.get raises.
ExecuteUncaught(process_id, data, prefer) ==
    /\ resp = NoResp
    /\ EarlyReturn(process_id, data) = "AttributeError"
    /\ resp' = Uncaught(Request(process_id, data, prefer), "AttributeError",
                        FALSE)
    /\ UNCHANGED <<db, tasks>>

\* manager.execute_process raises ProcessorExecuteError: the process, run
\* inline, failed to execute.
ExecuteFault(process_id, data, prefer, format) ==
    /\ resp = NoResp
    /\ EarlyReturn(process_id, data) = ""
    /\ ~IsAsync(execution_mode(prefer))
    /\ resp' = Answer(Request(process_id, data, prefer),
                      ExecuteFailure(format), "NoApplicableCode", 0, "", TRUE)
    /\ UNCHANGED <<db, tasks>>

\* Asynchronous execution: the accepted job is inserted, the rest of the
\* handler is left to a background task, and the result tuple comes back at
\* once with status accepted and no outputs.
ExecuteAsync(process_id, data, prefer, format, additional_headers) ==
    /\ resp = NoResp
    /\ EarlyReturn(process_id, data) = ""
    /\ IsAsync(execution_mode(prefer))
    /\ Len(db) < MaxJobs
    /\ db' = HandlerInsert(db, NewJobId, process_id)
    /\ tasks' = [tasks EXCEPT ![NewJobId] =
                    [pc |-> "accepted", data_dict |-> InputsOf(data)]]
    /\ resp' = Answer(Request(process_id, data, prefer),
                      ExecuteResponse(format, json_loads(data).value, NewJobId,
                                      JsonMime, Null, "accepted",
                                      additional_headers),
                      "", NewJobId, "accepted", TRUE)

\* Synchronous execution: the handler runs inline and execute_process
\* builds its response from the result tuple.
ExecuteSync(process_id, data, prefer, format, additional_headers, path) ==
    /\ resp = NoResp
    /\ EarlyReturn(process_id, data) = ""
    /\ ~IsAsync(execution_mode(prefer))
    /\ Len(db) < MaxJobs
    /\ db' = HandlerInline(db, NewJobId, process_id, InputsOf(data), path)
    /\ tasks' = [tasks EXCEPT ![NewJobId] =
                    [pc |-> "returned", data_dict |-> EmptyDict]]
    /\ resp' = Answer(Request(process_id, data, prefer),
                      ExecuteResponse(format, json_loads(data).value, NewJobId,
                          ProcessRun(process_id, InputsOf(data)).mimetype,
                          ProcessRun(process_id, InputsOf(data)).outputs,
                          ProcessRun(process_id, InputsOf(data)).status,
                          additional_headers),
                      "", NewJobId,
                      ProcessRun(process_id, InputsOf(data)).status, TRUE)

(***************************************************************************)
(* Actions: the background task of an asynchronous execution               *)
(***************************************************************************)
\* The process of job job_id
ProcessOf(job_id) == get_job(db, job_id).job.processid

\* What the handler of job job_id gets from the process.
RunOf(job_id) == ProcessRun(ProcessOf(job_id), tasks[job_id].data_dict)

TaskDone == [pc |-> "done", data_dict |-> EmptyDict]

TaskStart(job_id) ==
    /\ resp = NoResp
    /\ tasks[job_id].pc = "accepted"
    /\ db' = HandlerRunning(db, job_id)
    /\ tasks' = [tasks EXCEPT ![job_id].pc = "running"]
    /\ UNCHANGED resp

TaskSucceed(job_id) ==
    /\ resp = NoResp
    /\ tasks[job_id].pc = "running"
    /\ RunOf(job_id).status = "successful"
    /\ db' = HandlerSucceeded(db, job_id, RunOf(job_id))
    /\ tasks' = [tasks EXCEPT ![job_id] = TaskDone]
    /\ UNCHANGED resp

TaskAddResult(job_id) ==
    /\ resp = NoResp
    /\ tasks[job_id].pc = "running"
    /\ RunOf(job_id).status = "successful"
    /\ db' = HandlerStored(db, job_id, ProcessOf(job_id))
    /\ tasks' = [tasks EXCEPT ![job_id] =
                    [pc |-> "stored", data_dict |-> EmptyDict]]
    /\ UNCHANGED resp

TaskComplete(job_id) ==
    /\ resp = NoResp
    /\ tasks[job_id].pc = "stored"
    /\ db' = HandlerCompleted(db, job_id)
    /\ tasks' = [tasks EXCEPT ![job_id] = TaskDone]
    /\ UNCHANGED resp

TaskFail(job_id) ==
    /\ resp = NoResp
    /\ tasks[job_id].pc = "running"
    /\ RunOf(job_id).status = "failed"
    /\ db' = HandlerFailed(db, job_id)
    /\ tasks' = [tasks EXCEPT ![job_id] = TaskDone]
    /\ UNCHANGED resp

(***************************************************************************)
(* Actions: get_job_result, and updateStatus called from outside           *)
(***************************************************************************)
GetJobResult(job_id, format) ==
    /\ resp = NoResp
    /\ resp' = Response("result", JobResultResponse(db, format, job_id),
                        JobResultCode(db, job_id), job_id, "", FALSE)
    /\ UNCHANGED <<db, tasks>>

\* updateStatus called by someone who is not the job's handler, for a
\* transition that is not the lifecycle's next one.
UpdateStatus(job_id, newStatus) ==
    /\ resp = NoResp
    /\ JobDocs(db, job_id) # << >>
    /\ ~LegalTransition(get_job(db, job_id).job.status, newStatus)
    /\ db' = updateStatus(db, job_id, newStatus, Null).store
    /\ resp' = [NoResp EXCEPT !.op = "updateStatus", !.job = job_id,
                   !.code = updateStatus(db, job_id, newStatus, Null).error]
    /\ UNCHANGED tasks

\* The call returns to its caller.
Return ==
    /\ resp # NoResp
    /\ resp' = NoResp
    /\ UNCHANGED <<db, tasks>>

Next ==
    \/ \E p \in ProcessIds, d \in Bodies, h \in PreferValues, f \in Formats :
           ExecuteRejected(p, d, h, f)
    \/ \E p \in ProcessIds, d \in Bodies, h \in PreferValues :
           ExecuteUncaught(p, d, h)
    \/ \E p \in ProcessIds, d \in Bodies, h \in PreferValues, f \in Formats :
           ExecuteFault(p, d, h, f)
    \/ \E p \in ProcessIds, d \in Bodies, h \in PreferValues, f \in Formats,
          a \in AdditionalHeaders : ExecuteAsync(p, d, h, f, a)
    \/ \E p \in ProcessIds, d \in Bodies, h \in PreferValues, f \in Formats,
          a \in AdditionalHeaders, w \in ResultPaths :
           ExecuteSync(p, d, h, f, a, w)
    \/ \E j \in JobIds : TaskStart(j)
    \/ \E j \in JobIds : TaskSucceed(j)
    \/ \E j \in JobIds : TaskAddResult(j)
    \/ \E j \in JobIds : TaskComplete(j)
    \/ \E j \in JobIds : TaskFail(j)
    \/ \E j \in AskedJobIds, f \in Formats : GetJobResult(j, f)
    \/ \E j \in JobIds, s \in JobStatus : UpdateStatus(j, s)
    \/ Return

Spec == Init /\ [][Next]_vars

(***************************************************************************)
(* Fair scheduling: a call that has its answer returns, and the background *)
(* task of a job is not passed over forever while it has a step to take.   *)
(***************************************************************************)
\* One step of the background task of job job_id.
TaskStep(job_id) ==
    \/ TaskStart(job_id)
    \/ TaskSucceed(job_id)
    \/ TaskAddResult(job_id)
    \/ TaskComplete(job_id)
    \/ TaskFail(job_id)

Fairness ==
    /\ WF_vars(Return)
    /\ \A j \in JobIds : SF_vars(TaskStep(j))

SpecFair == Spec /\ Fairness

(***************************************************************************)
(* Two updaters of one job: the job's background task and a second caller  *)
(* of updateStatus that may ask for any transition, the next one of the    *)
(* lifecycle included.  Each updateStatus call is one step.                *)
(***************************************************************************)
\* What the second updater attaches when it reports success.
OtherResult == [mimetype |-> JsonMime, payload |-> [id |-> "other"]]

\* updateStatus(job_id, newStatus, result) by the second updater; the
\* status asked for and the outcome are what the caller gets back.
UpdateStatusOther(job_id, newStatus) ==
    LET result == IF newStatus = "successful" THEN OtherResult ELSE Null
    IN /\ resp = NoResp
       /\ JobDocs(db, job_id) # << >>
       /\ db' = updateStatus(db, job_id, newStatus, result).store
       /\ resp' = [NoResp EXCEPT
                      !.op = "updateStatus", !.job = job_id,
                      !.status = newStatus,
                      !.code = updateStatus(db, job_id, newStatus, result).error]
       /\ UNCHANGED tasks

\* Request bodies the jobs of this specification are started with: one the
\* process fails on, one it succeeds on.
UpdateBodies == {"{}", "{\"inputs\":{\"name\":\"Test\"}}"}

NextUpdate ==
    \/ \E d \in UpdateBodies :
           ExecuteAsync("hello-world", d, "respond-async", F_JSON, Null)
    \/ \E j \in JobIds : TaskStart(j)
    \/ \E j \in JobIds : TaskSucceed(j)
    \/ \E j \in JobIds : TaskAddResult(j)
    \/ \E j \in JobIds : TaskComplete(j)
    \/ \E j \in JobIds : TaskFail(j)
    \/ \E j \in JobIds, s \in JobStatus : UpdateStatusOther(j, s)
    \/ Return

SpecUpdate == Init /\ [][NextUpdate]_vars

(***************************************************************************)
(* The job store on its own: TinyDBManager called directly                 *)
(***************************************************************************)
\* Documents the store is filled with when it is called directly.
MaxDocs == MaxJobs + 2

\* TinyDBManager.destroy: self.db.purge()
destroy(store) == << >>

\* add_job(job_metadata) with a job id of the caller's choice.
StoreAddJob(jobid, processid) ==
    /\ resp = NoResp
    /\ Len(db) < MaxDocs
    /\ db' = add_job(db, JobMetadata(jobid, processid, "accepted", Null))
    /\ UNCHANGED <<tasks, resp>>

\* get_job_result(processid, jobid): the list db.search returns.
StoreGetJobResult(processid, jobid) ==
    /\ resp = NoResp
    /\ resp' = [NoResp EXCEPT !.op = "search", !.job = jobid,
                   !.body = [r |-> get_job_result(db, processid, jobid)]]
    /\ UNCHANGED <<db, tasks>>

StoreDestroy ==
    /\ resp = NoResp
    /\ db # << >>
    /\ db' = destroy(db)
    /\ UNCHANGED <<tasks, resp>>

NextStore ==
    \/ \E j \in JobIds, p \in Registry : StoreAddJob(j, p)
    \/ \E j \in JobIds, p \in Registry : StoreGetJobResult(p, j)
    \/ StoreDestroy
    \/ Return

SpecStore == Init /\ [][NextStore]_vars

(***************************************************************************)
(* Properties                                                              *)
(***************************************************************************)
\* The error code of a return's envelope, as JSON text or as the HTML page
\* shows it; "" if the body is no envelope.
ErrorCode(r) ==
    IF "json" \in DOMAIN r.body /\ "code" \in DOMAIN r.body.json
    THEN r.body.json.code
    ELSE IF "html" \in DOMAIN r.body /\ "code" \in DOMAIN r.body.data
    THEN r.body.data.code ELSE ""

\* The content of a return's body, read back from JSON text where it is one.
Content(r) == IF "json" \in DOMAIN r.body THEN r.body.json ELSE r.body

HasLocation(r) == "Location" \in DOMAIN r.headers

\* An execute_process call has been answered.
Executed == resp.op = "execute"

\* Request bodies that are JSON objects, by response style.
RawBodies == {"{}", "{\"inputs\":{\"name\":\"Test\"}}"}
DocumentBodies == {"{\"inputs\":{\"name\":\"Test\"},\"response\":\"document\"}",
                   "{\"inputs\":{},\"response\":\"document\"}"}
ObjectBodies == RawBodies \cup DocumentBodies
\* Request bodies that are not JSON at all.
GarbageBodies == {"{not json"}

\* C1: a request for a process that is not in the registry is answered 404
\* with code NoSuchProcess and without a Location header, whatever its body
\* and its Prefer header.
C1_UnknownProcess ==
    (Executed /\ resp.request.process_id \notin Registry) =>
        /\ resp.http = 404
        /\ ErrorCode(resp) = "NoSuchProcess"
        /\ ~HasLocation(resp)

\* An unknown process was asked for with a body and a Prefer header that
\* would otherwise start an asynchronous run.
C1_Witness ==
    /\ Executed
    /\ resp.request = Request("foo", "{\"inputs\":{\"name\":\"Test\"}}",
                              "respond-async")
    /\ resp.http = 404

\* C2: a request for a registered process with an empty body is answered 400
\* with code MissingParameterValue and without a Location header.
C2_EmptyBody ==
    (Executed /\ resp.request.process_id \in Registry
              /\ resp.request.data = "") =>
        /\ resp.http = 400
        /\ ErrorCode(resp) = "MissingParameterValue"
        /\ ~HasLocation(resp)

C2_Witness ==
    /\ Executed
    /\ resp.request.process_id = "hello-world"
    /\ resp.request.data = ""
    /\ ErrorCode(resp) = "MissingParameterValue"

OutputOf(process_id) ==
    IF process_id = "hello-world" THEN HelloOutput ELSE TileOutput
MimetypeOf(process_id) ==
    IF process_id = "hello-world" THEN "application/json" ELSE "image/png"

\* An execution came back with a status other than failed and accepted.
Delivered ==
    Executed /\ resp.job # 0 /\ resp.status \notin {"failed", "accepted"}

\* C4: when an execution comes back neither failed nor accepted, a raw
\* response (also the default) carries the process output as its content
\* and the output's mimetype as Content-Type; a document response carries
\* an object whose only key, outputs, holds the list of that one output.
C4_ResponseStyle ==
    Delivered =>
        IF resp.request.data \in RawBodies
        THEN /\ Content(resp) = OutputOf(resp.request.process_id)
             /\ resp.headers["Content-Type"] =
                    MimetypeOf(resp.request.process_id)
        ELSE /\ DOMAIN Content(resp) = {"outputs"}
             /\ Content(resp).outputs = <<OutputOf(resp.request.process_id)>>

\* Both styles, for a JSON and for a binary output.
C4_Witness ==
    /\ Delivered
    /\ resp.request.process_id = "tile-render"
    /\ resp.request.data \in DocumentBodies
    /\ \E i \in DOMAIN db : db[i].status = "successful" /\ db[i].jobid # resp.job

\* The document of job job_id is in the store.
Stored(job_id) == \E i \in DOMAIN db : db[i].jobid = job_id

\* The status the store holds for job job_id.
StatusOf(job_id) == db[CHOOSE i \in DOMAIN db : db[i].jobid = job_id].status

\* The result the store holds for job job_id.
ResultIn(job_id) == db[CHOOSE i \in DOMAIN db : db[i].jobid = job_id].result

\* A get_job_result call has been answered.
Fetched == resp.op = "result"

\* Job job_id was started by an asynchronous (or an inline) execute_process call.
StartedAsync(job_id) ==
    job_id \in JobIds /\ tasks[job_id].pc \notin {"none", "returned"}
StartedInline(job_id) ==
    job_id \in JobIds /\ tasks[job_id].pc = "returned"

\* C5 as claimed: every request for a registered process with a body that
\* is valid JSON and Prefer: respond-async is answered 201 with a Location
\* header that names the job.
C5_AsyncCreatedAnyJson ==
    (Executed /\ resp.request.process_id \in Registry
              /\ resp.request.data \in ObjectBodies \cup {"[1]"}
              /\ resp.request.prefer = "respond-async") =>
        /\ resp.http = 201
        /\ HasLocation(resp)

\* C5 for bodies that are JSON objects: every such request for a registered
\* process with Prefer: respond-async is answered 201 with a Location
\* header that names a job the store holds, and no later get_job_result for
\* a job started this way answers NoSuchJob.
C5_AsyncCreated ==
    /\ (Executed /\ resp.request.process_id \in Registry
                 /\ resp.request.data \in ObjectBodies
                 /\ resp.request.prefer = "respond-async") =>
            /\ resp.http = 201
            /\ HasLocation(resp)
            /\ resp.headers["Location"] = "/jobs/" \o ToString(resp.job)
            /\ Stored(resp.job)
    /\ (Fetched /\ StartedAsync(resp.job)) => ErrorCode(resp) # "NoSuchJob"

\* The result of a job started asynchronously is asked for and found there.
C5_Witness ==
    /\ Fetched
    /\ StartedAsync(resp.job)
    /\ resp.http = 200

\* C6 as claimed: get_job_result answers by the job's status: 404
\* ResultNotReady for running and accepted, 400 InvalidParameterValue for
\* failed, 200 with the attached result for successful, and 404 NoSuchJob
\* for a job id the store does not hold.
C6_StatusGate ==
    Fetched =>
        IF ~Stored(resp.job)
        THEN resp.http = 404 /\ ErrorCode(resp) = "NoSuchJob"
        ELSE CASE StatusOf(resp.job) \in {"running", "accepted"} ->
                    resp.http = 404 /\ ErrorCode(resp) = "ResultNotReady"
               [] StatusOf(resp.job) = "failed" ->
                    resp.http = 400 /\ ErrorCode(resp) = "InvalidParameterValue"
               [] StatusOf(resp.job) = "successful" ->
                    resp.http = 200

\* An execution came back failed.
CameBackFailed == Executed /\ resp.job # 0 /\ resp.status = "failed"

\* C7: an execution that ends failed is answered 200 with a Location header
\* and the process's error payload, which carries a code, in raw and in
\* document style alike; get_job_result for the same job answers 400.
C7_FailedExecution ==
    /\ CameBackFailed =>
            /\ resp.http = 200
            /\ HasLocation(resp)
            /\ "code" \in DOMAIN Content(resp)
            /\ Content(resp) = [code |-> "InvalidParameterValue",
                                description |-> "Error updating job"]
    /\ (Fetched /\ StartedInline(resp.job) /\ StatusOf(resp.job) = "failed")
            => resp.http = 400

\* hello-world without a name, document style, came back failed.
C7_Witness ==
    /\ CameBackFailed
    /\ resp.request.data = "{\"inputs\":{},\"response\":\"document\"}"
    /\ StatusOf(resp.job) = "failed"

\* C8: when the invocation raises a processing error, the answer is 500
\* with code NoApplicableCode and without a Location header.
C8_ProcessingError ==
    (Executed /\ resp.invoked /\ resp.job = 0) =>
        /\ resp.http = 500
        /\ ErrorCode(resp) = "NoApplicableCode"
        /\ ~HasLocation(resp)

C8_Witness ==
    /\ Executed /\ resp.invoked /\ resp.job = 0
    /\ resp.request.process_id = "hello-world"
    /\ Len(db) = 1

\* C9: a job's status moves only accepted -> running -> successful or
\* accepted -> running -> failed: in no step does a stored job vanish or
\* change status in any other way, and an updateStatus call for any other
\* transition is turned down with InvalidTransition and changes nothing.
C9_Lifecycle ==
    [][/\ \A i \in DOMAIN db :
            /\ i \in DOMAIN db'
            /\ db'[i].jobid = db[i].jobid
            /\ \/ db'[i].status = db[i].status
               \/ <<db[i].status, db'[i].status>> \in
                      {<<"accepted", "running">>, <<"running", "successful">>,
                       <<"running", "failed">>}
       /\ (resp'.op = "updateStatus" /\ resp' # resp) =>
              (resp'.code = "InvalidTransition" /\ db' = db)]_vars

\* A transition out of a terminal status was asked for and turned down.
C9_Witness ==
    /\ resp.op = "updateStatus"
    /\ resp.code = "InvalidTransition"
    /\ StatusOf(resp.job) \in {"successful", "failed"}

\* C10 as claimed: in every state of the store a job has a result attached
\* if and only if its status is successful.
C10_ResultIffSuccessful ==
    \A i \in DOMAIN db : (db[i].result # Null) <=> (db[i].status = "successful")

\* The store answered a search by (processid, jobid).
Searched == resp.op = "search"

\* C11 as claimed: whatever inserts came before, a lookup by
\* (process_id, job_id) yields exactly one job or none, because an insert of
\* a job_id the store already holds is rejected.
C11_OneRecordPerJob == Searched => Len(resp.body.r) <= 1

\* The statuses no transition leaves.
Terminal == {"successful", "failed"}

\* C12: a job in a terminal status gets the same answer from get_job_result
\* every time it is asked in the same format: no step of the system, on
\* this job or another, changes what get_job_result returns for it (status
\* code, headers and body), and what a call returns is this answer.
C12_Idempotent ==
    [][/\ \A j \in JobIds, f \in Formats :
              (db' # db /\ Stored(j) /\ StatusOf(j) \in Terminal) =>
                  JobResultResponse(db', f, j) = JobResultResponse(db, f, j)
       /\ (Fetched' /\ ~Fetched) =>
              \E f \in Formats :
                  /\ resp'.http = JobResultResponse(db, f, resp'.job).http
                  /\ resp'.headers = JobResultResponse(db, f, resp'.job).headers
                  /\ resp'.body = JobResultResponse(db, f, resp'.job).body]_vars

\* The result of a finished job is fetched while another job is under way.
C12_Witness ==
    /\ Fetched
    /\ Stored(resp.job)
    /\ StatusOf(resp.job) \in Terminal
    /\ \E j \in JobIds : Stored(j) /\ j # resp.job /\ StatusOf(j) = "running"

\* C13: on the asynchronous path the accepted record is in the store when
\* execute_process returns 201 with the Location header: a get_job_result at
\* that moment finds the job (and answers ResultNotReady), and at no later
\* moment does get_job_result answer NoSuchJob for a job started this way.
C13_InsertedBeforeLocation ==
    /\ (Executed /\ resp.http = CREATED) =>
            /\ HasLocation(resp)
            /\ Stored(resp.job)
            /\ JobResultCode(db, resp.job) = "ResultNotReady"
    /\ \A j \in JobIds : StartedAsync(j) => JobResultCode(db, j) # "NoSuchJob"
    /\ (Fetched /\ StartedAsync(resp.job)) => resp.code # "NoSuchJob"

\* The client fetches the result right after the 201, before the background
\* task has taken its first step.
C13_Witness ==
    /\ Fetched
    /\ StartedAsync(resp.job)
    /\ tasks[resp.job].pc = "accepted"
    /\ ErrorCode(resp) = "ResultNotReady"

\* C14: with two updaters at work on one job every updateStatus call is one
\* step against the job as the step finds it: a step leaves a stored job as
\* it is or moves it along the lifecycle, a status or result once written
\* is never written over, and the second updater's call either takes
\* effect as the transition it asked for or comes back InvalidTransition
\* with the store untouched.
C14_Serialized ==
    [][/\ \A i \in DOMAIN db :
              /\ i \in DOMAIN db'
              /\ \/ db'[i] = db[i]
                 \/ /\ LegalTransition(db[i].status, db'[i].status)
                    /\ db[i].result = Null
                    /\ db'[i].jobid = db[i].jobid
                    /\ db'[i].processid = db[i].processid
       /\ (resp'.op = "updateStatus" /\ resp.op = "none") =>
              \/ resp'.code = "InvalidTransition" /\ db' = db
              \/ /\ resp'.code = ""
                 /\ LegalTransition(StatusOf(resp'.job), resp'.status)
                 /\ get_job(db', resp'.job).job.status = resp'.status
                 /\ \A i \in DOMAIN db :
                        db[i].jobid # resp'.job => db'[i] = db[i]]_vars

\* The second updater asked to mark a job failed after the job's own task
\* had marked it successful with its result, and lost.
C14_Witness ==
    /\ resp.op = "updateStatus"
    /\ resp.code = "InvalidTransition"
    /\ resp.status = "failed"
    /\ tasks[resp.job].pc = "done"
    /\ StatusOf(resp.job) = "successful"
    /\ ResultIn(resp.job) # Null
    /\ ResultIn(resp.job) # OtherResult

\* Job job_id has been returned with status accepted.
ReturnedAccepted(job_id) == tasks[job_id].pc = "accepted"

\* C15 as claimed: under fair scheduling every job returned with status
\* accepted reaches a terminal status: failed, or successful with its result
\* attached.
C15_AcceptedTerminates ==
    \A j \in JobIds :
        ReturnedAccepted(j) ~>
            /\ Stored(j)
            /\ \/ StatusOf(j) = "failed"
               \/ StatusOf(j) = "successful" /\ ResultIn(j) # Null

\* C15 without the result: under fair scheduling every job returned with
\* status accepted is running at a later moment and in a terminal status at
\* a moment after that.
C15_AcceptedEnds ==
    \A j \in JobIds :
        ReturnedAccepted(j) ~>
            (Stored(j) /\ StatusOf(j) = "running"
                /\ <>(Stored(j) /\ StatusOf(j) \in Terminal))

\* The invocation of an execute_process call returned its result tuple.
CameBack == Executed /\ resp.job # 0

\* C16: execute_process returns 201 exactly when the status that came back
\* from the invocation is accepted and 200 for every other status, whatever
\* the response style, the Prefer header and the requested format; this is
\* so for the status that came back and for every other status the same
\* request could have come back with.
C16_CreatedIffAccepted ==
    CameBack =>
        /\ (resp.http = CREATED) <=> (resp.status = "accepted")
        /\ (resp.http = OK) <=> (resp.status # "accepted")
        /\ \A status \in JobStatus :
               ExecuteResponse(F_JSON, json_loads(resp.request.data).value,
                               resp.job, JsonMime, Null, status, Null).http
                   = IF status = "accepted" THEN CREATED ELSE OK

\* A request in document style came back accepted and was answered 201.
C16_Witness ==
    /\ CameBack
    /\ resp.status = "accepted"
    /\ resp.http = CREATED
    /\ resp.request.data \in DocumentBodies

\* C17: get_job_result for a job the store holds as successful with no
\* result attached answers 500 with code JobResultNotFound, in either
\* format: not a 200, not a 404.
C17_ResultNotFound ==
    (/\ Fetched
     /\ Stored(resp.job)
     /\ StatusOf(resp.job) = "successful"
     /\ ResultIn(resp.job) = Null) =>
        /\ resp.http = INTERNAL_SERVER_ERROR
        /\ ErrorCode(resp) = "JobResultNotFound"
        /\ ~HasLocation(resp)

\* The result of a successful job with nothing attached is asked for as HTML.
C17_Witness ==
    /\ Fetched
    /\ Stored(resp.job)
    /\ StatusOf(resp.job) = "successful"
    /\ ResultIn(resp.job) = Null
    /\ resp.headers["Content-Type"] = "text/html"

\* Prefer headers that state no execution mode: none, or a value the
\* enumeration does not have.
NoPreference == {"absent", "wait=10"}

\* C18: a Prefer header that is absent or not recognized resolves to the
\* same execution mode, never the asynchronous one, and causes no error: a
\* request with such a header that passes the checks of process and body
\* has its process invoked and is answered as an inline execution, 200 with
\* a Location header, unless the process itself raises.
C18_PreferIgnored ==
    /\ \A h \in NoPreference :
            /\ execution_mode(h) = execution_mode("absent")
            /\ ~IsAsync(execution_mode(h))
    /\ (/\ Executed
        /\ resp.request.prefer \in NoPreference
        /\ EarlyReturn(resp.request.process_id, resp.request.data) = "") =>
            /\ resp.invoked
            /\ \/ ErrorCode(resp) = "NoApplicableCode"
               \/ /\ CameBack
                  /\ resp.http = OK
                  /\ HasLocation(resp)
                  /\ StartedInline(resp.job)
                  /\ resp.status \in Terminal

\* A request with a Prefer value outside the enumeration was executed inline.
C18_Witness ==
    /\ CameBack
    /\ resp.request.prefer = "wait=10"
    /\ resp.invoked
    /\ resp.http = OK

\* C19: the checks of execute_process come in a fixed order, registry
\* first, then emptiness of the body, then parsing: an unknown process with
\* an empty or malformed body is answered 404 NoSuchProcess, and a
\* registered process with an empty body 400 MissingParameterValue, never
\* InvalidParameterValue; no such request gets as far as the invocation.
C19_Precedence ==
    /\ (/\ Executed
        /\ resp.request.process_id \notin Registry
        /\ resp.request.data \in {""} \cup GarbageBodies) =>
            /\ resp.http = NOT_FOUND
            /\ ErrorCode(resp) = "NoSuchProcess"
            /\ ~resp.invoked
    /\ (/\ Executed
        /\ resp.request.process_id \in Registry
        /\ resp.request.data = "") =>
            /\ resp.http = BAD_REQUEST
            /\ ErrorCode(resp) = "MissingParameterValue"
            /\ ErrorCode(resp) # "InvalidParameterValue"
            /\ ~resp.invoked

\* An unknown process was asked for with a body that is not JSON.
C19_Witness ==
    /\ Executed
    /\ resp.request.process_id = "foo"
    /\ resp.request.data \in GarbageBodies
    /\ ErrorCode(resp) = "NoSuchProcess"

\* The codes of the four error returns of execute_process (resp.code is the
\* code of the return taken, "" for the return of a result tuple).
ExecuteErrors == {"NoSuchProcess", "MissingParameterValue",
                  "InvalidParameterValue", "NoApplicableCode"}

\* C20: an execute_process return carries a Location header exactly when the
\* invocation came back with its result tuple, which is exactly when the
\* status is 200 or 201; the four error returns carry none; and the Location
\* is the one of the job id that came back, also when the manager's
\* additional headers held a Location of their own.
C20_Location ==
    Executed =>
        /\ HasLocation(resp) <=> CameBack
        /\ HasLocation(resp) <=> resp.http \in {OK, CREATED}
        /\ resp.code \in ExecuteErrors =>
               /\ ErrorCode(resp) = resp.code
               /\ resp.http \in {BAD_REQUEST, NOT_FOUND, INTERNAL_SERVER_ERROR}
               /\ ~HasLocation(resp)
        /\ resp.http \notin {OK, CREATED} =>
               resp.code \in ExecuteErrors \cup {"AttributeError"}
        /\ HasLocation(resp) =>
               resp.headers["Location"] = LocationOf(resp.job)

\* The manager returned headers of its own, a Location among them, and the
\* answer names the job all the same.
C20_Witness ==
    /\ CameBack
    /\ "Link" \in DOMAIN resp.headers
    /\ resp.headers["Location"] = LocationOf(resp.job)
    /\ resp.job = MaxJobs

\* The codes execute_process turns a request down with.
Rejections == {"NoSuchProcess", "MissingParameterValue",
               "InvalidParameterValue"}

\* C21: a step in which execute_process answers 400 or 404 with one of the
\* codes NoSuchProcess, MissingParameterValue, InvalidParameterValue has not
\* invoked the process and leaves the store and the background tasks as they
\* were; and a step in which get_job_result answers, whatever it answers,
\* leaves them as they were too.
C21_Frame ==
    [][/\ (/\ resp'.op = "execute" /\ resp' # resp
           /\ resp'.http \in {BAD_REQUEST, NOT_FOUND}
           /\ ErrorCode(resp') \in Rejections) =>
              /\ ~resp'.invoked
              /\ db' = db
              /\ tasks' = tasks
       /\ (resp'.op = "result" /\ resp' # resp) =>
              /\ db' = db
              /\ tasks' = tasks]_vars

\* A request was turned down while the store held a job under way.
C21_Witness ==
    /\ Executed
    /\ resp.http \in {BAD_REQUEST, NOT_FOUND}
    /\ ErrorCode(resp) \in Rejections
    /\ ~resp.invoked
    /\ \E j \in JobIds : Stored(j) /\ StatusOf(j) = "running"

====
